---- MODULE Spec2Model ----
(***************************************************************************)
(* A model of CoralNode (src/src/coral_node.cpp): the link list and its    *)
(* grafts, the pose refresh cycle, the camera-parent resolver and the      *)
(* model spawner, run by the node's callbacks (one at a time, they share   *)
(* the node's default callback group), by the delayed discovery task of    *)
(* the constructor (its own thread) and beside the viewer's draw loop.     *)
(*                                                                         *)
(* Strings the code cuts and compares character by character (topic names  *)
(* and namespaces) are sequences of one-character strings; names that are  *)
(* only compared as wholes (link names, file names) are strings.           *)
(***************************************************************************)
EXTENDS Integers, Sequences, FiniteSets, TLC

(* ---------------------------------------------------------------- bounds *)

\* No spawn is started once the link list could grow past this length.
MaxLinks == 3

\* Poses are the values 0..MaxPose; 0 is the identity matrix.
MaxPose == 1

\* The calls of findModels the stack of a thread has room for, one inside
\* the other.
MaxDepth == 3

(* ------------------------------------------------------- program constants *)

\* refreshLinkPoses: the camera is locked when delay < 1 ...
FreshDelay == 1

\* ... or when delay > 1e8
HugeDelay == 100000000

(* ------------------------------------------------------------------ data *)

Poses == 0 .. MaxPose

\* A lookup that fails (unknown frame, timeout), and "no value yet".
Fail == 0 - 1

\* M * P on matrices: the identity 0 is neutral.
Compose(m, p) == (m + p) % (MaxPose + 1)

\* The transform delays (seconds) the model feeds to the camera branch: a stamp
\* in the future, a fresh one, the two ends of the stale range, and 1e9.
Delays == {-1, 0, FreshDelay, HugeDelay, 1000000000}

coral_cam_link == "coral_cam_view"

world_name == "world"

\* The parent chains of the camera frame the transform directory may hold:
\* tf.exists is _frameExists(coral_cam_link), tf.chain the frames getParent
\* returns in turn, from the camera's parent upwards.
NoCamera == [exists |-> FALSE, chain |-> << >>]

TFConfigs ==
  { NoCamera,
    [exists |-> TRUE,  chain |-> << >>],
    [exists |-> TRUE,  chain |-> <<"world">>],
    [exists |-> TRUE,  chain |-> <<"A", "arm", "world">>],
    [exists |-> TRUE,  chain |-> <<"arm", "base", "world">>],
    [exists |-> TRUE,  chain |-> <<"A", "B">>] }

Threads == {"exec", "disc"}

Other(t) == IF t = "exec" THEN "disc" ELSE "exec"

(* ------------------------------------------------------------- strings *)

description == <<"r","o","b","o","t","_","d","e","s","c","r","i","p","t","i","o","n">>

\* std::string::substr(pos, n), 0-based, cut at the end of the string
substr(s, pos, n) ==
  LET last == IF pos + n > Len(s) THEN Len(s) ELSE pos + n
  IN  IF pos >= Len(s) \/ n <= 0 THEN << >> ELSE SubSeq(s, pos + 1, last)

\* 0 == s.compare(pos, n, t)
compareAt(s, pos, n, t) == substr(s, pos, n) = t

\* findModels: the isDescription lambda
isDescription(topic) ==
  /\ Len(topic) >= Len(description)
  /\ compareAt(topic, Len(topic) - Len(description), Len(description), description)

\* findModels: the isSameNS lambda
isSameNS(ns, topic) ==
  /\ Len(topic) >= Len(ns)
  /\ (Len(ns) = 0 \/ compareAt(topic, 0, Len(ns), ns))

\* findModels: ns = topic.substr(0, topic.size() - description.size() - 1)
nsOf(topic) == substr(topic, 0, Len(topic) - Len(description) - 1)

(* ------------------------------------------------------- the environment *)

NsA == <<"/", "a">>

NsB == <<"/", "b">>

PoseType == "geometry_msgs/msg/Pose"

\* get_topic_names_and_types(): a std::map, so in the order of the names
Topics ==
  << [name |-> NsA \o <<"/", "p">>, type |-> PoseType],
     [name |-> NsA \o <<"/">> \o description, type |-> "std_msgs/msg/String"] >>

\* What urdf_parser::Tree makes of the description the robot_state_publisher
\* of a namespace holds: the link descriptions in order, parent "" for none.
TreeOfNs(ns) ==
  CASE ns = NsA -> << [name |-> "base", parent |-> ""] >>
    [] ns = NsB -> << [name |-> "arm",  parent |-> "base"],
                      [name |-> "tool", parent |-> "arm"] >>
    [] OTHER -> << >>

\* What urdf_parser::Tree makes of a world file
TreeOfFile(file) ==
  IF file = "w.urdf"
    THEN << [name |-> "world", parent |-> ""],
            [name |-> "rock",  parent |-> "world"] >>
    ELSE << >>

\* The files std::ifstream can open
Files == {"w.urdf"}

\* The topics when a description is also published in the root namespace
RootTopics ==
  << [name |-> NsA \o <<"/", "p">>, type |-> PoseType],
     [name |-> NsA \o <<"/">> \o description, type |-> "std_msgs/msg/String"],
     [name |-> <<"/">> \o description, type |-> "std_msgs/msg/String"] >>

TopicLists == { << >>, Topics, RootTopics }

\* The requests the /coral/spawn service receives
SpawnRequests ==
  { [ns |-> << >>, topic |-> << >>,  file |-> ""],
    [ns |-> NsA,   topic |-> <<"p">>, file |-> ""],
    [ns |-> NsB,   topic |-> << >>,  file |-> ""],
    [ns |-> << >>, topic |-> << >>,  file |-> "w.urdf"],
    [ns |-> << >>, topic |-> << >>,  file |-> "missing.urdf"] }

(* ----------------------------------------------------------------- state *)

VARIABLES
  links,                  \* std::vector<Link> links
  capacity,               \* links.capacity()
  world_elems,            \* the addElements calls world_link has received
  known_model_namespaces, \* the namespaces spawned so far
  pose_subs,              \* the pose subscriptions, each with its target Link
  lock,                   \* the holder of the scene lock: "exec", "render" or "none"
  prev_link,              \* getKnownCamParent's static Link* prev_link
  viewer,                 \* the viewer's camera: the last lockCamera/freeCamera
  tf,                     \* the transform directory's chain above the camera
  topics,                 \* what get_topic_names_and_types() returns
  pc,                     \* where each thread is
  sp,                     \* each thread's spawnModel/parseModel/findModels frame
  cyc,                    \* refreshLinkPoses' loop and camera locals
  fault                   \* the process has crashed

vars == << links, capacity, world_elems, known_model_namespaces, pose_subs, lock,
           prev_link, viewer, tf, topics, pc, sp, cyc, fault >>

\* A Link as constructed from a link description: identity poses, no parent
\* yet (-1). parent 0 is the World Link, k >= 1 the k-th slot of links.
\* Bookkeeping for the properties: last is the value the Link's pose source
\* delivered most recently (the last successful lookup, or the last pushed
\* pose; Fail when none), model the namespace or file whose tree the Link
\* comes from, root whether it is the first Link its parseModel appended.
NewLink(name) ==
  [name |-> name, parent |-> 0 - 1, pending |-> 0, committed |-> 0,
   fed |-> FALSE, last |-> Fail, model |-> << >>, root |-> FALSE]

NullLink == [kind |-> "null", idx |-> 0, stale |-> FALSE]

WorldLink == [kind |-> "world", idx |-> 0, stale |-> FALSE]

\* fm is the position of the running findModels in its loop over the topics
\* (0: none runs), stack the positions of the calls of findModels it is
\* nested in. res is how the last spawnModel of the thread ended
\* (bookkeeping): "dup", "nofile", "noparam", "ok", or "" while none has
NoFrame == [ns |-> << >>, topic |-> << >>, file |-> "", fm |-> 0, stack |-> << >>,
            root |-> 0, rootIt |-> 0, bi |-> 0, stale |-> FALSE, res |-> ""]

\* walked: the camera parent of this cycle comes from the walk; steady: the
\* directory has not changed since the walk began (bookkeeping)
CycIdle == [it |-> 0, end |-> 0, stale |-> FALSE, walk |-> "", M |-> 0, delay |-> 0,
            walked |-> FALSE, steady |-> TRUE]

Init ==
  /\ links = << >>
  /\ capacity = 0
  /\ world_elems = 0
  /\ known_model_namespaces = << >>
  /\ pose_subs = << >>
  /\ lock = "none"
  /\ prev_link = NullLink
  /\ viewer = [mode |-> "init", M |-> 0, delay |-> 0]
  /\ tf = NoCamera
  /\ topics = Topics
  /\ pc = [t \in Threads |-> IF t = "exec" THEN "idle" ELSE "sleep"]
  /\ sp = [t \in Threads |-> NoFrame]
  /\ cyc = CycIdle
  /\ fault = FALSE

(* --------------------------------------------------- undefined behaviour *)

\* What an access through an iterator, pointer or reference into links can
\* do: the access itself when the storage is the one it was taken from; once
\* the vector has reallocated it reads and writes freed storage, which may
\* still reach the Link ("live"), may miss it ("lost") or may crash.
Outcomes(stale) == IF stale THEN {"live", "lost", "crash"} ELSE {"live"}

\* links.reserve / emplace_back moved the elements to new storage: the
\* iterators of a running loop, the root iterator of a running graft of the
\* other thread and the memoized camera parent now dangle.
StaleCyc(t) ==
  IF t = "disc" /\ pc["exec"] \in {"phaseA", "phaseB"}
    THEN [cyc EXCEPT !.stale = TRUE] ELSE cyc

StalePrev == IF prev_link.kind = "link" THEN [prev_link EXCEPT !.stale = TRUE] ELSE prev_link

\* The handler of a subscription keeps the Link it was taken from
StaleSubs == [k \in 1 .. Len(pose_subs) |-> [pose_subs[k] EXCEPT !.stale = TRUE]]

StaleRoot(frames, t) ==
  IF pc[Other(t)] = "graft"
    THEN [frames EXCEPT ![Other(t)].stale = TRUE] ELSE frames

(* ------------------------------------------------------------------ Link *)

\* Link::refreshFrom(tf_buffer), res the result of the lookup: a Link fed by
\* a pose subscription ignores the directory; a failed lookup keeps the
\* pending pose.
refreshFrom(l, res) ==
  IF l.fed \/ res = Fail THEN l ELSE [l EXCEPT !.pending = res]

\* Link::applyNewPose(): the pending pose becomes the committed one
applyNewPose(l) == [l EXCEPT !.committed = l.pending]

\* The handler Link::poseCallback() returns: the pose becomes the pending one
setPending(l, v) == [l EXCEPT !.pending = v]

\* Link::poseCallback(): the Link is fed by the subscription from now on
poseCallback(l) == [l EXCEPT !.fed = TRUE]

\* The pose source of a Link delivered v (bookkeeping for the properties)
Delivered(l, v) == [l EXCEPT !.last = v]

(* ------------------------------------------------------ refreshLinkPoses *)

Running(t) == ~fault /\ t \in Threads

\* The pose_update_timer fires: if(tf_buffer.ready()) starts Phase A over
\* links.begin() .. links.end(); otherwise the cycle goes on to Phase B.
TimerFires ==
  /\ Running("exec") /\ pc["exec"] = "idle"
  /\ \E ready \in BOOLEAN :
       IF ready
         THEN /\ pc' = [pc EXCEPT !["exec"] = "phaseA"]
              /\ cyc' = [CycIdle EXCEPT !.it = 1, !.end = Len(links)]
         ELSE /\ pc' = [pc EXCEPT !["exec"] = "lockB"]
              /\ cyc' = CycIdle
  /\ sp' = [sp EXCEPT !["exec"] = NoFrame]
  /\ UNCHANGED << links, capacity, world_elems, known_model_namespaces, pose_subs,
                  lock, prev_link, viewer, tf, topics, fault >>

\* One turn of "for(auto &link: links) link.refreshFrom(tf_buffer);": the
\* lookup of the Link's transform returns res (it may block for its timeout).
PhaseA ==
  /\ Running("exec") /\ pc["exec"] = "phaseA"
  /\ IF cyc.it > cyc.end
       THEN /\ pc' = [pc EXCEPT !["exec"] = "lockB"]
            /\ cyc' = CycIdle
            /\ UNCHANGED << links, fault >>
       ELSE \E res \in Poses \cup {Fail}, out \in Outcomes(cyc.stale) :
              LET l   == links[cyc.it]
                  got == IF l.fed \/ res = Fail THEN l ELSE Delivered(l, res)
              IN  /\ links' = [links EXCEPT ![cyc.it] =
                                 IF out = "live" THEN refreshFrom(got, res) ELSE got]
                  /\ fault' = (out = "crash")
                  /\ cyc' = [cyc EXCEPT !.it = @ + 1]
                  /\ UNCHANGED pc
  /\ UNCHANGED << capacity, world_elems, known_model_namespaces, pose_subs, lock,
                  prev_link, viewer, tf, topics, sp >>

\* "const auto lock{coral_lock()};" of Phase B, then links.begin()/end()
LockB ==
  /\ Running("exec") /\ pc["exec"] = "lockB"
  /\ lock = "none"
  /\ lock' = "exec"
  /\ pc' = [pc EXCEPT !["exec"] = "phaseB"]
  /\ cyc' = [CycIdle EXCEPT !.it = 1, !.end = Len(links)]
  /\ UNCHANGED << links, capacity, world_elems, known_model_namespaces, pose_subs,
                  prev_link, viewer, tf, topics, sp, fault >>

\* One turn of "for(auto &link: links) link.applyNewPose();"; the lock is
\* released at the end of the block.
PhaseB ==
  /\ Running("exec") /\ pc["exec"] = "phaseB"
  /\ IF cyc.it > cyc.end
       THEN /\ pc' = [pc EXCEPT !["exec"] = "cam"]
            /\ cyc' = CycIdle
            /\ lock' = "none"
            /\ UNCHANGED << links, fault >>
       ELSE \E out \in Outcomes(cyc.stale) :
              /\ links' = [links EXCEPT ![cyc.it] =
                             IF out = "live" THEN applyNewPose(@) ELSE @]
              /\ fault' = (out = "crash")
              /\ cyc' = [cyc EXCEPT !.it = @ + 1]
              /\ UNCHANGED << pc, lock >>
  /\ UNCHANGED << capacity, world_elems, known_model_namespaces, pose_subs,
                  prev_link, viewer, tf, topics, sp >>

(* ----------------------------------------------------- getKnownCamParent *)

\* tf_buffer.getParent(frame): the frame above it in the directory, "" if none
getParent(frame) ==
  IF frame = coral_cam_link
    THEN IF Len(tf.chain) >= 1 THEN tf.chain[1] ELSE ""
    ELSE IF \E k \in 1 .. Len(tf.chain) - 1 : tf.chain[k] = frame
           THEN tf.chain[(CHOOSE k \in 1 .. Len(tf.chain) - 1 : tf.chain[k] = frame) + 1]
           ELSE ""

\* std::find(first, links.end(), name): the first slot after `first` slots
\* that holds a Link of that name, Len(ls) + 1 (links.end()) if none
find(ls, first, name) ==
  IF \E k \in first + 1 .. Len(ls) : ls[k].name = name
    THEN CHOOSE k \in first + 1 .. Len(ls) :
           /\ ls[k].name = name
           /\ \A j \in first + 1 .. k - 1 : ls[j].name # name
    ELSE Len(ls) + 1

\* prev_link->getName() / parent->getName()
getName(p) == IF p.kind = "world" THEN world_name ELSE links[p.idx].name

\* "if(tf_buffer._frameExists(coral_cam_link))", then the head of
\* getKnownCamParent: the fast path returns the memoized Link when the
\* camera's parent carries its name; otherwise the memo is cleared and the
\* walk starts (parent.value() throws when the camera frame has no parent).
CamParent ==
  /\ Running("exec") /\ pc["exec"] = "cam"
  /\ IF ~tf.exists
       THEN /\ pc' = [pc EXCEPT !["exec"] = "idle"]
            /\ UNCHANGED << prev_link, cyc, fault >>
       ELSE LET parent == getParent(coral_cam_link)
            IN  \E out \in Outcomes(prev_link.stale) :
                  IF out = "crash"
                    THEN fault' = TRUE /\ UNCHANGED << pc, prev_link, cyc >>
                    ELSE IF /\ prev_link.kind # "null" /\ parent # ""
                            /\ out = "live" /\ parent = getName(prev_link)
                           THEN /\ pc' = [pc EXCEPT !["exec"] = "camLookup"]
                                /\ UNCHANGED << prev_link, cyc, fault >>
                           ELSE /\ prev_link' = NullLink
                                /\ IF parent = ""
                                     THEN fault' = TRUE /\ UNCHANGED << pc, cyc >>
                                     ELSE /\ pc' = [pc EXCEPT !["exec"] = "walk"]
                                          /\ cyc' = [cyc EXCEPT !.walk = parent,
                                                                !.walked = TRUE]
                                          /\ UNCHANGED fault
  /\ UNCHANGED << links, capacity, world_elems, known_model_namespaces, pose_subs,
                  lock, viewer, tf, topics, sp >>

\* The mutant of resolve that stops at the world frame only
resolve_worldOnly(frame, ls) == IF frame = world_name THEN WorldLink ELSE NullLink

\* The two tests of the while(true) of getKnownCamParent on the frame the
\* walk has reached: the World Link when it is the world frame, else the
\* first Link of that name (root.base()), else nothing yet
resolve(frame, ls) ==
  IF frame = world_name THEN WorldLink
  ELSE IF find(ls, 0, frame) # Len(ls) + 1
         THEN [kind |-> "link", idx |-> find(ls, 0, frame), stale |-> FALSE]
         ELSE NullLink

\* One turn of the while(true) of getKnownCamParent; "return" at
\* "if(parent == nullptr)" when the directory has no further parent.
Walk ==
  /\ Running("exec") /\ pc["exec"] = "walk"
  /\ IF resolve(cyc.walk, links) # NullLink
       THEN /\ prev_link' = resolve(cyc.walk, links)
            /\ pc' = [pc EXCEPT !["exec"] = "camLookup"]
            /\ cyc' = [cyc EXCEPT !.walk = ""]
       ELSE IF getParent(cyc.walk) = ""
              THEN /\ pc' = [pc EXCEPT !["exec"] = "idle"]
                   /\ cyc' = CycIdle
                   /\ UNCHANGED prev_link
              ELSE /\ cyc' = [cyc EXCEPT !.walk = getParent(cyc.walk)]
                   /\ UNCHANGED << pc, prev_link >>
  /\ UNCHANGED << links, capacity, world_elems, known_model_namespaces, pose_subs,
                  lock, viewer, tf, topics, sp, fault >>

\* tf_buffer.lookupTransform(parent->getName(), coral_cam_link, ..., 10ms):
\* it returns the transform m stamped delay seconds ago, or throws
CamLookup ==
  /\ Running("exec") /\ pc["exec"] = "camLookup"
  /\ \E res \in Poses \cup {Fail}, delay \in Delays, out \in Outcomes(prev_link.stale) :
       IF res = Fail \/ out = "crash"
         THEN fault' = TRUE /\ UNCHANGED << pc, cyc >>
         ELSE /\ pc' = [pc EXCEPT !["exec"] = "camApply"]
              /\ cyc' = [cyc EXCEPT !.M = res, !.delay = delay]
              /\ UNCHANGED fault
  /\ UNCHANGED << links, capacity, world_elems, known_model_namespaces, pose_subs,
                  lock, prev_link, viewer, tf, topics, sp >>

\* The mutant of lockable that locks on a fresh stamp only
lockable_freshOnly(delay) == delay < FreshDelay

\* "if(delay < 1 || delay > 1e8)"
lockable(delay) == delay < FreshDelay \/ delay > HugeDelay

\* The matrix handed to lockCamera: M, times the parent's matrix unless the
\* parent is named "world"
camMatrix(M, p, ls) ==
  IF getName(p) # world_name THEN Compose(M, ls[p.idx].committed) ELSE M

\* The end of refreshLinkPoses: viewer.lockCamera(M) or viewer.freeCamera()
CamApply ==
  /\ Running("exec") /\ pc["exec"] = "camApply"
  /\ \E out \in Outcomes(prev_link.stale) :
       /\ fault' = (out = "crash")
       /\ viewer' = IF out = "crash" THEN viewer
                    ELSE IF lockable(cyc.delay)
                      THEN [mode |-> "locked",
                            M |-> IF out = "live" THEN camMatrix(cyc.M, prev_link, links)
                                  ELSE cyc.M,
                            delay |-> cyc.delay]
                      ELSE [mode |-> "free", M |-> 0, delay |-> cyc.delay]
  /\ pc' = [pc EXCEPT !["exec"] = "idle"]
  /\ cyc' = CycIdle
  /\ UNCHANGED << links, capacity, world_elems, known_model_namespaces, pose_subs,
                  lock, prev_link, tf, topics, sp >>

(* ------------------------------------------- spawnModel, findModels, graft *)

\* The mutant of hasModel that misses the namespace recorded last
hasModel_butLast(model) ==
  \E k \in 1 .. Len(known_model_namespaces) - 1 : known_model_namespaces[k] = model

\* CoralNode::hasModel
hasModel(model) ==
  \E k \in 1 .. Len(known_model_namespaces) : known_model_namespaces[k] = model

\* The tree the running spawnModel of thread t parses
Batch(t) == IF sp[t].file # "" THEN TreeOfFile(sp[t].file) ELSE TreeOfNs(sp[t].ns)

\* The Links a tree appends: every entry but those named "world"
Appends(tree) == Cardinality({k \in 1 .. Len(tree) : tree[k].name # world_name})

\* The index of the first description topic from the k-th on, 0 if none
NextDescription(k) ==
  IF \E j \in k .. Len(topics) : isDescription(topics[j].name)
    THEN CHOOSE j \in k .. Len(topics) :
           /\ isDescription(topics[j].name)
           /\ \A i \in k .. j - 1 : ~isDescription(topics[i].name)
    ELSE 0

\* findModels: std::find_if over the topics for a Pose topic of the namespace;
\* the index of the first one, 0 if none
PoseTopicOf(ns) ==
  IF \E j \in 1 .. Len(topics) : isSameNS(ns, topics[j].name) /\ topics[j].type = PoseType
    THEN CHOOSE j \in 1 .. Len(topics) :
           /\ isSameNS(ns, topics[j].name) /\ topics[j].type = PoseType
           /\ \A i \in 1 .. j - 1 :
                ~(isSameNS(ns, topics[i].name) /\ topics[i].type = PoseType)
    ELSE 0

\* The Links a request, or the discovery, may append (the bound of the model)
RECURSIVE DiscoveryNeed(_)
DiscoveryNeed(k) ==
  IF NextDescription(k) = 0 THEN 0
  ELSE Appends(TreeOfNs(nsOf(topics[NextDescription(k)].name)))
         + DiscoveryNeed(NextDescription(k) + 1)

Need(req) ==
  IF req.file # "" THEN Appends(TreeOfFile(req.file))
  ELSE IF req.ns = << >> THEN DiscoveryNeed(1)
  ELSE IF hasModel(req.ns) THEN 0 ELSE Appends(TreeOfNs(req.ns))

Room(n) ==
  Len(links) + n + (IF pc["disc"] = "done" THEN 0 ELSE DiscoveryNeed(1)) <= MaxLinks

\* The /coral/spawn callback: "const auto lock{coral_lock()};" and the call
\* spawnModel(request->robot_namespace, request->pose_topic, request->world_model)
SpawnService(requests) ==
  /\ Running("exec") /\ pc["exec"] = "idle"
  /\ lock = "none"
  /\ \E req \in requests :
       /\ Room(Need(req))
       /\ sp' = [sp EXCEPT !["exec"] =
                   [NoFrame EXCEPT !.ns = req.ns, !.topic = req.topic, !.file = req.file]]
  /\ lock' = "exec"
  /\ pc' = [pc EXCEPT !["exec"] = "spawnModel"]
  /\ UNCHANGED << links, capacity, world_elems, known_model_namespaces, pose_subs,
                  prev_link, viewer, tf, topics, cyc, fault >>

\* The task of the constructor: std::async, sleep_for(delay), findModels()
DiscoveryTask ==
  /\ Running("disc") /\ pc["disc"] = "sleep"
  /\ pc' = [pc EXCEPT !["disc"] = "findModels"]
  /\ sp' = [sp EXCEPT !["disc"] = [NoFrame EXCEPT !.fm = 1]]
  /\ UNCHANGED << links, capacity, world_elems, known_model_namespaces, pose_subs,
                  lock, prev_link, viewer, tf, topics, cyc, fault >>

\* spawnModel returns on thread t: into the loop of findModels, or out of the
\* service callback, whose lock is released
Return(t, res) ==
  IF sp[t].fm > 0
    THEN /\ pc' = [pc EXCEPT ![t] = "findModels"]
         /\ sp' = [sp EXCEPT ![t] = [NoFrame EXCEPT !.fm = sp[t].fm,
                                                    !.stack = sp[t].stack, !.res = res]]
         /\ UNCHANGED lock
    ELSE /\ pc' = [pc EXCEPT ![t] = "idle"]
         /\ sp' = [sp EXCEPT ![t] = [NoFrame EXCEPT !.res = res]]
         /\ lock' = "none"

\* findModels: the loop over the topics up to the next description topic,
\* for which spawnModel(ns) or spawnModel(ns, pose topic) is called; the end
\* of the loop returns (to the service callback, or ends the task).
findModels(t) ==
  /\ Running(t) /\ pc[t] = "findModels"
  /\ LET j  == NextDescription(sp[t].fm)
         ns == nsOf(topics[j].name)
         pt == PoseTopicOf(ns)
     IN  IF j = 0
           THEN IF sp[t].stack # << >>
                  THEN /\ sp' = [sp EXCEPT ![t] =
                                   [NoFrame EXCEPT
                                      !.fm = sp[t].stack[Len(sp[t].stack)],
                                      !.stack = SubSeq(sp[t].stack, 1,
                                                       Len(sp[t].stack) - 1)]]
                       /\ UNCHANGED << pc, lock >>
                  ELSE /\ pc' = [pc EXCEPT ![t] = IF t = "disc" THEN "done" ELSE "idle"]
                       /\ sp' = [sp EXCEPT ![t] = NoFrame]
                       /\ lock' = IF t = "disc" THEN lock ELSE "none"
           ELSE /\ pc' = [pc EXCEPT ![t] = "spawnModel"]
                /\ sp' = [sp EXCEPT ![t] =
                            [NoFrame EXCEPT
                               !.ns = ns,
                               !.topic = IF pt = 0 THEN << >>
                                         ELSE substr(topics[pt].name, Len(ns) + 1,
                                                     Len(topics[pt].name)),
                               !.fm = j + 1,
                               !.stack = sp[t].stack]]
                /\ UNCHANGED lock
  /\ UNCHANGED << links, capacity, world_elems, known_model_namespaces, pose_subs,
                  prev_link, viewer, tf, topics, cyc, fault >>

\* The head of spawnModel: rediscovery for an empty request (a call of
\* findModels inside the running one when spawnModel was called from its
\* loop; the process ends when the stack has no room for it), the world
\* file (opened or not), the duplicate check, else on to the description
\* service.
spawnModel(t) ==
  /\ Running(t) /\ pc[t] = "spawnModel"
  /\ IF sp[t].ns = << >> /\ sp[t].file = ""
       THEN IF sp[t].fm > 0 /\ Len(sp[t].stack) >= MaxDepth
              THEN fault' = TRUE /\ UNCHANGED << pc, sp, lock >>
              ELSE /\ pc' = [pc EXCEPT ![t] = "findModels"]
                   /\ sp' = [sp EXCEPT ![t] =
                               [NoFrame EXCEPT
                                  !.fm = 1,
                                  !.stack = IF sp[t].fm > 0
                                              THEN Append(sp[t].stack, sp[t].fm)
                                              ELSE sp[t].stack]]
                   /\ UNCHANGED << lock, fault >>
       ELSE /\ UNCHANGED fault
            /\ IF sp[t].file # ""
                 THEN IF sp[t].file \notin Files
                        THEN Return(t, "nofile")
                        ELSE /\ pc' = [pc EXCEPT ![t] = "parseModel"]
                             /\ UNCHANGED << sp, lock >>
                 ELSE IF hasModel(sp[t].ns)
                        THEN Return(t, "dup")
                        ELSE /\ pc' = [pc EXCEPT ![t] = "rsp"]
                             /\ UNCHANGED << sp, lock >>
  /\ UNCHANGED << links, capacity, world_elems, known_model_namespaces, pose_subs,
                  prev_link, viewer, tf, topics, cyc >>

\* The mutant of DescriptionService that records the namespace before it
\* knows that the description exists
DescriptionService_recordFirst(t) ==
  /\ Running(t) /\ pc[t] = "rsp"
  /\ known_model_namespaces' = Append(known_model_namespaces, sp[t].ns)
  /\ \E has_parameter \in BOOLEAN :
       IF ~has_parameter
         THEN Return(t, "noparam")
         ELSE /\ pc' = [pc EXCEPT ![t] = "parseModel"]
              /\ sp' = [sp EXCEPT ![t].root = Len(links)]
              /\ UNCHANGED lock
  /\ UNCHANGED << links, capacity, world_elems, pose_subs,
                  prev_link, viewer, tf, topics, cyc, fault >>

\* rsp_param_srv->wait_for_service() and has_parameter("robot_description"):
\* the thread waits for the robot_state_publisher of the namespace; then
\* "const auto root_link_idx{links.size()};"
DescriptionService(t) ==
  /\ Running(t) /\ pc[t] = "rsp"
  /\ \E has_parameter \in BOOLEAN :
       IF ~has_parameter
         THEN Return(t, "noparam")
         ELSE /\ pc' = [pc EXCEPT ![t] = "parseModel"]
              /\ sp' = [sp EXCEPT ![t].root = Len(links)]
              /\ UNCHANGED lock
  /\ UNCHANGED << links, capacity, world_elems, known_model_namespaces, pose_subs,
                  prev_link, viewer, tf, topics, cyc, fault >>

\* The head of parseModel: the tree, links.reserve(links.size() + tree.size())
\* (new storage when the capacity is smaller) and root = links.begin() + links.size()
parseModel(t) ==
  /\ Running(t) /\ pc[t] = "parseModel"
  /\ LET n     == Len(links) + Len(Batch(t))
         moved == n > capacity
     IN  /\ capacity' = IF moved THEN n ELSE capacity
         /\ cyc' = IF moved THEN StaleCyc(t) ELSE cyc
         /\ prev_link' = IF moved THEN StalePrev ELSE prev_link
         /\ sp' = [(IF moved THEN StaleRoot(sp, t) ELSE sp) EXCEPT
                     ![t].rootIt = Len(links), ![t].bi = 1, ![t].stale = FALSE]
         /\ pose_subs' = IF moved THEN StaleSubs ELSE pose_subs
  /\ pc' = [pc EXCEPT ![t] = "graft"]
  /\ UNCHANGED << links, world_elems, known_model_namespaces, lock,
                  viewer, tf, topics, fault >>

\* The parent edge setParent gives the Link just appended to ls, for the
\* entry e of the tree and the root iterator of the batch: the World Link
\* (0), or the slot std::find returns, which is links.end() when no Link
\* from root on carries the parent's name
parentOf(ls, rootIt, e) ==
  IF e.parent = "" \/ e.parent = world_name THEN 0 ELSE find(ls, rootIt, e.parent)

\* The mutant of emplace_back that inserts at the front
emplace_front(ls, l) == <<l>> \o ls

\* links.emplace_back(link)
emplace_back(ls, l) == Append(ls, l)

\* One turn of the loop of parseModel, then addCameras; a world file returns
\* from spawnModel, a description goes on to the subscription.
graft(t) ==
  /\ Running(t) /\ pc[t] = "graft"
  /\ LET tree == Batch(t)
         e    == tree[sp[t].bi]
     IN  IF sp[t].bi > Len(tree)
           THEN /\ IF sp[t].file # ""
                     THEN Return(t, "ok")
                     ELSE /\ pc' = [pc EXCEPT ![t] = "subscribe"]
                          /\ UNCHANGED << sp, lock >>
                /\ UNCHANGED << links, capacity, world_elems, pose_subs, prev_link,
                                cyc, fault >>
           ELSE IF e.name = world_name
             THEN /\ world_elems' = world_elems + 1
                  /\ sp' = [sp EXCEPT ![t].bi = @ + 1]
                  /\ UNCHANGED << links, capacity, pose_subs, prev_link, cyc, fault,
                                  pc, lock >>
             ELSE LET moved == Len(links) = capacity
                      ls    == emplace_back(links,
                                      [NewLink(e.name) EXCEPT
                                         !.model = IF sp[t].file # "" THEN <<sp[t].file>>
                                                   ELSE sp[t].ns,
                                         !.root = (Len(links) = sp[t].rootIt)])
                      found == parentOf(ls, sp[t].rootIt, e)
                      seeks == e.parent \notin {"", world_name}
                  IN  \E out \in Outcomes(seeks /\ (sp[t].stale \/ moved))
                                   \cup (IF found = Len(ls) + 1 THEN {"crash"} ELSE {}) :
                        LET p == IF out = "live" THEN found ELSE Len(ls) + 1
                        IN  /\ links' = [ls EXCEPT ![Len(ls)].parent = p]
                            /\ fault' = (out = "crash")
                            /\ capacity' = IF moved
                                             THEN (IF capacity = 0 THEN 1 ELSE 2 * capacity)
                                             ELSE capacity
                            /\ cyc' = IF moved THEN StaleCyc(t) ELSE cyc
                            /\ prev_link' = IF moved THEN StalePrev ELSE prev_link
                            /\ pose_subs' = IF moved THEN StaleSubs ELSE pose_subs
                            /\ sp' = [(IF moved THEN StaleRoot(sp, t) ELSE sp) EXCEPT
                                        ![t].bi = @ + 1,
                                        ![t].stale = @ \/ moved]
                            /\ UNCHANGED << world_elems, pc, lock >>
  /\ UNCHANGED << known_model_namespaces, viewer, tf, topics >>

\* The end of spawnModel: with a pose topic and a Link appended, the
\* subscription to model_ns + "/" + pose_topic handled by
\* links[root_link_idx].poseCallback(); then the namespace is recorded.
subscribe(t) ==
  /\ Running(t) /\ pc[t] = "subscribe"
  /\ IF sp[t].topic # << >> /\ Len(links) > sp[t].root
       THEN /\ links' = [links EXCEPT ![sp[t].root + 1] = poseCallback(@)]
            /\ pose_subs' = Append(pose_subs,
                                   [topic |-> sp[t].ns \o <<"/">> \o sp[t].topic,
                                    target |-> sp[t].root + 1, stale |-> FALSE])
       ELSE UNCHANGED << links, pose_subs >>
  /\ known_model_namespaces' = Append(known_model_namespaces, sp[t].ns)
  /\ Return(t, "ok")
  /\ UNCHANGED << capacity, world_elems, prev_link, viewer, tf, topics, cyc, fault >>

(* ------------------------------------------------------- the other inputs *)

\* A Pose message arrives on the topic of a subscription: its handler runs
\* on the Link it was taken from
PosePush ==
  /\ Running("exec") /\ pc["exec"] = "idle"
  /\ \E k \in 1 .. Len(pose_subs), v \in Poses :
       \E out \in Outcomes(pose_subs[k].stale) :
         /\ links' = [links EXCEPT ![pose_subs[k].target] =
                        Delivered(IF out = "live" THEN setPending(@, v) ELSE @, v)]
         /\ fault' = (out = "crash")
  /\ sp' = [sp EXCEPT !["exec"] = NoFrame]
  /\ UNCHANGED << capacity, world_elems, known_model_namespaces, pose_subs, lock,
                  prev_link, viewer, tf, topics, pc, cyc >>

\* The viewer draws one frame under the scene lock
DrawBegin ==
  /\ ~fault /\ lock = "none"
  /\ lock' = "render"
  /\ UNCHANGED << links, capacity, world_elems, known_model_namespaces, pose_subs,
                  prev_link, viewer, tf, topics, pc, sp, cyc, fault >>

DrawEnd ==
  /\ ~fault /\ lock = "render"
  /\ lock' = "none"
  /\ UNCHANGED << links, capacity, world_elems, known_model_namespaces, pose_subs,
                  prev_link, viewer, tf, topics, pc, sp, cyc, fault >>

\* The transform listener learns another chain of frames above the camera
TFChange ==
  /\ ~fault
  /\ \E c \in TFConfigs \ {tf} : tf' = c
  /\ cyc' = IF pc["exec"] = "walk" THEN [cyc EXCEPT !.steady = FALSE] ELSE cyc
  /\ UNCHANGED << topics, links, capacity, world_elems, known_model_namespaces, pose_subs,
                  lock, prev_link, viewer, pc, sp, fault >>

\* The program where no camera frame is published
Next ==
  \/ TimerFires \/ PhaseA \/ LockB \/ PhaseB \/ CamParent
  \/ SpawnService(SpawnRequests) \/ DiscoveryTask \/ PosePush
  \/ \E t \in Threads :
       \/ findModels(t) \/ spawnModel(t) \/ DescriptionService(t)
       \/ parseModel(t) \/ graft(t) \/ subscribe(t)
  \/ DrawBegin \/ DrawEnd

Spec == Init /\ [][Next]_vars

\* The program started with spawn_auto <= 0 (no discovery task), spawning on
\* request only, with the camera frame coming and going in the directory
CamRequests ==
  { [ns |-> NsA, topic |-> << >>, file |-> ""],
    [ns |-> NsB, topic |-> << >>, file |-> ""] }

NextCam ==
  \/ TimerFires \/ PhaseA \/ LockB \/ PhaseB
  \/ CamParent \/ Walk \/ CamLookup \/ CamApply
  \/ SpawnService(CamRequests)
  \/ spawnModel("exec") \/ DescriptionService("exec")
  \/ parseModel("exec") \/ graft("exec") \/ subscribe("exec")
  \/ DrawBegin \/ DrawEnd \/ TFChange

InitCam ==
  /\ links = << >>
  /\ capacity = 0
  /\ world_elems = 0
  /\ known_model_namespaces = << >>
  /\ pose_subs = << >>
  /\ lock = "none"
  /\ prev_link = NullLink
  /\ viewer = [mode |-> "init", M |-> 0, delay |-> 0]
  /\ tf \in TFConfigs
  /\ topics = Topics
  /\ pc = [t \in Threads |-> IF t = "exec" THEN "idle" ELSE "done"]
  /\ sp = [t \in Threads |-> NoFrame]
  /\ cyc = CycIdle
  /\ fault = FALSE

SpecCam == InitCam /\ [][NextCam]_vars

\* The spawner alone, over each of the topic lists
NextDisc ==
  \/ SpawnService(SpawnRequests) \/ DiscoveryTask
  \/ \E t \in Threads :
       \/ findModels(t) \/ spawnModel(t) \/ DescriptionService(t)
       \/ parseModel(t) \/ graft(t) \/ subscribe(t)

InitDisc ==
  /\ links = << >>
  /\ capacity = 0
  /\ world_elems = 0
  /\ known_model_namespaces = << >>
  /\ pose_subs = << >>
  /\ lock = "none"
  /\ prev_link = NullLink
  /\ viewer = [mode |-> "init", M |-> 0, delay |-> 0]
  /\ tf = NoCamera
  /\ topics \in TopicLists
  /\ pc = [t \in Threads |-> IF t = "exec" THEN "idle" ELSE "sleep"]
  /\ sp = [t \in Threads |-> NoFrame]
  /\ cyc = CycIdle
  /\ fault = FALSE

SpecDisc == InitDisc /\ [][NextDisc]_vars

(* ------------------------------------------------------------ properties *)

\* C1: Phase B runs inside one acquisition of the scene lock, and when the
\* lock is released every Link of the tree is at its committed pose of this
\* tick (its pending pose has been applied): an observer under the lock sees
\* no mixture of two ticks.
C1_SnapshotCommit ==
  /\ (pc["exec"] = "phaseB" => lock = "exec")
  /\ (pc["exec"] = "cam" =>
        \A i \in 1 .. Len(links) : links[i].committed = links[i].pending)

\* C2: a thread about to write the scene graph (commit a pose, attach a Link
\* in parseModel, call lockCamera or freeCamera) holds the scene lock.
C2_WritesUnderLock ==
  \A t \in Threads :
    (\/ pc[t] = "phaseB" /\ cyc.it <= cyc.end
     \/ pc[t] = "graft" /\ sp[t].bi <= Len(Batch(t))
     \/ pc[t] = "camApply") => lock = t

\* C3: a thread waiting on external I/O (a transform lookup, the description
\* service of a spawn) does not hold the scene lock.
C3_NoLockWhileWaiting ==
  \A t \in Threads :
    (\/ pc[t] = "phaseA" /\ cyc.it <= cyc.end
     \/ pc[t] = "camLookup"
     \/ pc[t] = "rsp") => lock # t

\* C4: at the end of a refresh cycle (Phase A, then Phase B) the committed
\* pose of every Link the directory drives is the result of its most recent
\* successful lookup; failed lookups leave it at the previous such value.
C4_CommittedIsLastLookup ==
  pc["exec"] = "cam" =>
    \A i \in 1 .. Len(links) :
      (~links[i].fed /\ links[i].last # Fail) => links[i].committed = links[i].last

\* The subscription s feeds the first Link appended by the spawn of the
\* namespace its topic lies in
SubFeedsRoot(s) ==
  /\ links[s.target].root
  /\ isSameNS(links[s.target].model \o <<"/">>, s.topic)

\* C5: each pose subscription feeds the root Link of the model it was created
\* for; a pushed pose becomes that Link's pending pose and leaves every
\* committed pose alone; the next refresh cycle commits the last pose pushed.
C5_PoseFeed ==
  /\ [](\A k \in 1 .. Len(pose_subs) : SubFeedsRoot(pose_subs[k]))
  /\ [](pc["exec"] = "cam" =>
          \A i \in 1 .. Len(links) :
            (links[i].fed /\ links[i].last # Fail) => links[i].committed = links[i].last)
  /\ [][(pc["exec"] = "idle" /\ pc'["exec"] = "idle" /\ Len(links') = Len(links)) =>
          \A i \in 1 .. Len(links) :
            (links'[i].pending # links[i].pending \/ links'[i].last # links[i].last) =>
              /\ links[i].fed
              /\ \E k \in 1 .. Len(pose_subs) : pose_subs[k].target = i
              /\ links'[i].pending = links'[i].last
              /\ links'[i].committed = links[i].committed]_vars

\* C6: the parent edge of every Link designates the World Link (0) or a slot
\* of the list no later than the Link's own
C6_ParentNoLater ==
  \A i \in 1 .. Len(links) : links[i].parent \in 0 .. i

Recorded(ns) ==
  \E k \in 1 .. Len(known_model_namespaces) : known_model_namespaces[k] = ns

TreeState == << links, capacity, world_elems, pose_subs, known_model_namespaces >>

\* C7: a spawnModel for a namespace already recorded returns at once as a
\* duplicate: it does not go on to the description service and leaves the
\* link list, the subscriptions and the recorded namespaces as they were.
C7_DuplicateSpawnNoOp ==
  [][\A t \in Threads :
       (/\ pc[t] = "spawnModel" /\ pc'[t] # "spawnModel"
        /\ sp[t].file = "" /\ sp[t].ns # << >> /\ Recorded(sp[t].ns))
       => /\ pc'[t] \in {"idle", "findModels"}
          /\ sp'[t].res = "dup"
          /\ TreeState' = TreeState]_vars

\* C7: a duplicate spawn has returned while Links and a subscription exist
C7_Witness ==
  /\ \E t \in Threads : sp[t].res = "dup"
  /\ Len(links) > 0 /\ Len(pose_subs) > 0

\* C8: the first frame of the chain that is the world frame or carries the
\* name of a Link, 0 if there is none
FirstKnown(chain, ls) ==
  LET known(k) == chain[k] = world_name \/ \E i \in 1 .. Len(ls) : ls[i].name = chain[k]
  IN  IF \E k \in 1 .. Len(chain) : known(k)
        THEN CHOOSE k \in 1 .. Len(chain) : known(k) /\ \A j \in 1 .. k - 1 : ~known(j)
        ELSE 0

Position(chain, frame) ==
  IF \E k \in 1 .. Len(chain) : chain[k] = frame
    THEN CHOOSE k \in 1 .. Len(chain) : chain[k] = frame ELSE 0

\* C8: over a chain that does not change meanwhile, every turn of the walk
\* moves up the chain (so it ends), the walk resolves to the first frame of
\* the chain that is the world frame or a Link of the list and to nothing
\* only when there is none; the matrix given to lockCamera after a walk is
\* the camera transform, times the parent's committed matrix exactly when
\* the parent is not the World Link.
C8_ResolverWalk ==
  [][/\ ((pc["exec"] = "walk" /\ pc'["exec"] = "camLookup" /\ cyc.steady) =>
          LET k == FirstKnown(tf.chain, links)
          IN  /\ k # 0
              /\ Position(tf.chain, cyc.walk) = k
              /\ IF tf.chain[k] = world_name
                   THEN prev_link'.kind = "world"
                   ELSE /\ prev_link'.kind = "link"
                        /\ links[prev_link'.idx].name = tf.chain[k])
      /\ ((pc["exec"] = "walk" /\ pc'["exec"] = "idle" /\ cyc.steady) =>
            FirstKnown(tf.chain, links) = 0)
      /\ ((pc["exec"] = "walk" /\ pc'["exec"] = "walk" /\ cyc'.steady /\ cyc' # cyc) =>
            Position(tf.chain, cyc'.walk) > Position(tf.chain, cyc.walk))
      /\ ((pc["exec"] = "camApply" /\ pc'["exec"] = "idle" /\ cyc.walked
            /\ viewer'.mode = "locked" /\ ~fault') =>
            viewer'.M = IF prev_link.kind = "world" THEN cyc.M
                        ELSE Compose(cyc.M, links[prev_link.idx].committed))]_vars

\* C8: over cam -> A -> arm -> world with arm a Link whose committed matrix is
\* not the identity, the walk has resolved to arm and the camera is locked
\* on a matrix that differs from the camera transform
C8_Witness ==
  /\ tf.chain = <<"A", "arm", "world">>
  /\ prev_link.kind = "link" /\ links[prev_link.idx].name = "arm"
  /\ links[prev_link.idx].committed # 0
  /\ viewer.mode = "locked" /\ viewer.M # 0
  /\ pc["exec"] = "idle" /\ cyc = CycIdle

C10_FailedSpawnNoMutation ==
  [][\A t \in Threads :
       (pc[t] \in {"spawnModel", "rsp"} /\ pc'[t] # pc[t]) => TreeState' = TreeState]_vars

\* C10: a spawn has failed on a world file and another on a missing
\* description while Links, world elements and a subscription exist
C10_Witness ==
  /\ sp["exec"].res = "nofile" /\ sp["disc"].res = "noparam"
  /\ Len(links) > 0 /\ world_elems > 0 /\ Len(pose_subs) > 0

\* C11: a transform lookup that fails, for a Link in Phase A or for the
\* camera frame relative to its resolved parent, raises no fault: no step
\* of the refresh cycle that makes a lookup (through references that are
\* still valid) ends the program.
C11_LookupFailureNoFault ==
  [][(/\ pc["exec"] \in {"phaseA", "camLookup"}
      /\ ~prev_link.stale /\ ~cyc.stale) => ~fault']_vars

\* C12: when the directory has no parent for the camera frame, or none for a
\* frame the walk has reached before the world frame or a Link, the resolver
\* ends unresolved without a fault, the viewer is left alone and the cycle
\* is over (the next tick resolves again).
C12_NoParentUnresolved ==
  [][(/\ (pc'["exec"] # pc["exec"] \/ fault') /\ tf.exists /\ ~prev_link.stale
      /\ \/ pc["exec"] = "cam" /\ getParent(coral_cam_link) = ""
         \/ /\ pc["exec"] = "walk" /\ getParent(cyc.walk) = ""
            /\ cyc.walk # world_name
            /\ \A i \in 1 .. Len(links) : links[i].name # cyc.walk)
     => /\ ~fault'
        /\ pc'["exec"] = "idle"
        /\ prev_link' = NullLink
        /\ viewer' = viewer]_vars

\* The tree entry the graft of thread t is about to insert names a parent
\* Link (neither none nor "world")
NamesParent(t) ==
  /\ pc[t] = "graft" /\ sp[t].bi <= Len(Batch(t))
  /\ Batch(t)[sp[t].bi].name # world_name
  /\ Batch(t)[sp[t].bi].parent \notin {"", world_name}

Named(name) == \E i \in 1 .. Len(links) : links[i].name = name

\* C13: when the entry a graft inserts names a parent that no Link of the
\* list carries, the step ends in the fatal state and the new Link's parent
\* edge is not given a slot that holds no Link.
C13_MissingParentFatal ==
  [][\A t \in Threads :
       (/\ NamesParent(t) /\ sp'[t].bi # sp[t].bi
        /\ ~Named(Batch(t)[sp[t].bi].parent))
       => /\ fault'
          /\ \A i \in 1 .. Len(links') : links'[i].parent <= Len(links')]_vars

\* C14: when the entry a graft inserts names a parent that a Link of an
\* earlier batch carries (and none of its own batch), the new Link's parent
\* edge is that Link.
C14_CrossBatchParent ==
  [][\A t \in Threads :
       (/\ NamesParent(t) /\ sp'[t].bi # sp[t].bi /\ ~sp[t].stale
        /\ \E i \in 1 .. sp[t].rootIt : links[i].name = Batch(t)[sp[t].bi].parent
        /\ \A i \in sp[t].rootIt + 1 .. Len(links) :
             links[i].name # Batch(t)[sp[t].bi].parent)
       => /\ ~fault'
          /\ Len(links') = Len(links) + 1
          /\ links'[Len(links')].parent = find(links, 0, Batch(t)[sp[t].bi].parent)]_vars

\* C15: no step removes or reorders a Link or changes the parent edge of a
\* Link already in the list: the list before the step is a prefix of the
\* list after it, at most one Link longer, and a Link enters the list with
\* its parent edge set.
C15_AppendOnly ==
  [][/\ Len(links') \in {Len(links), Len(links) + 1}
     /\ \A i \in 1 .. Len(links) :
          /\ links'[i].name = links[i].name
          /\ links'[i].parent = links[i].parent
          /\ links'[i].model = links[i].model
     /\ \A i \in 1 .. Len(links') : links'[i].parent # 0 - 1]_vars

\* C15: Links of two spawns are in the list, a pose has been pushed and a
\* refresh cycle has committed a pose other than the identity
C15_Witness ==
  /\ Len(links) >= 2 /\ links[1].model # links[Len(links)].model
  /\ \E i \in 1 .. Len(links) : links[i].fed /\ links[i].committed # 0
  /\ \E i \in 1 .. Len(links) : ~links[i].fed /\ links[i].committed # 0

\* C16: the Links of a namespace are in the list at most once (no two Links
\* of the same model carry the same name) and no two pose subscriptions
\* are for the same topic, however the spawns of the two threads interleave.
C16_SpawnedOnce ==
  /\ \A i, j \in 1 .. Len(links) :
       (/\ links[i].model \in {NsA, NsB}
        /\ links[i].model = links[j].model /\ links[i].name = links[j].name) => i = j
  /\ \A k, l \in 1 .. Len(pose_subs) :
       pose_subs[k].topic = pose_subs[l].topic => k = l

\* C17: the discovery task is not inside the append loop of parseModel
\* while the refresh cycle is inside the loop of Phase A or of Phase B, or
\* while the resolver searches the list.
C17_NoGraftDuringRefresh ==
  ~(/\ pc["disc"] = "graft" /\ sp["disc"].bi <= Len(Batch("disc"))
    /\ \/ pc["exec"] \in {"phaseA", "phaseB"} /\ cyc.it <= cyc.end
       \/ pc["exec"] = "walk")

\* C18: the memoized camera parent and the target of every pose handler
\* designate the storage the Link lives in now: neither has been left
\* behind by a reallocation of the list.
C18_ReferencesStayValid ==
  /\ ~prev_link.stale
  /\ \A k \in 1 .. Len(pose_subs) : ~pose_subs[k].stale

\* C19: the calls of findModels a thread is nested in never use up its
\* stack, whatever the list of topics.
C19_DiscoveryRecursionBounded ==
  \A t \in Threads : Len(sp[t].stack) < MaxDepth

\* C20: when getKnownCamParent takes the fast path, the memoized Link it
\* returns is the Link a walk from the camera frame returns in that state
\* (the same Link in the storage the list has now); when it does not, the
\* memo is cleared before the walk and a walk that fails leaves it cleared.
C20_MemoTransparent ==
  [][/\ (pc["exec"] = "cam" /\ pc'["exec"] = "camLookup") =>
          /\ ~prev_link.stale
          /\ prev_link = resolve(getParent(coral_cam_link), links)
     /\ (pc["exec"] = "cam" /\ pc'["exec"] = "walk") => prev_link' = NullLink
     /\ (pc["exec"] = "walk" /\ pc'["exec"] = "idle") => prev_link' = NullLink]_vars

====
